---- MODULE Spec2Model ----
(***************************************************************************)
(* Range estimator of estimate-electric-car-range.                         *)
(*                                                                         *)
(* The estimator (src/unnamed/part_006, lines 158-408: the piecewise       *)
(* calibration that src/src/lib/constants/calculations.ts and the unit     *)
(* tests in src/src/lib/utils/tests describe) reads seven numbers from two *)
(* stores, derives five correction factors and a unit conversion,          *)
(* multiplies them, and divides the battery energy by the product.         *)
(*                                                                         *)
(* Numbers.  The program computes in IEEE-754 doubles.  Here a number is   *)
(* an exact rational [n |-> numerator, d |-> denominator] in lowest terms  *)
(* with d > 0; the three non-finite doubles are kept apart with d = 0:     *)
(*   [n |-> 1, d |-> 0] = Infinity, [n |-> -1, d |-> 0] = -Infinity,       *)
(*   [n |-> 0, d |-> 0] = NaN.                                             *)
(* A statement about such a number is about the real-number value of the  *)
(* expression the code evaluates, free of the rounding of the doubles (a   *)
(* relative 2^-53 per operation).  Where the order of the operations is    *)
(* what matters, in calculateEnergyConsumption called on its own, the      *)
(* doubles themselves are computed as well: see DoubleMul.                 *)
(***************************************************************************)
EXTENDS Integers, Sequences, FiniteSets, TLC

VARIABLES carStore, parameterStore, ret, call, callers

vars == <<carStore, parameterStore, ret, call, callers>>

----------------------------------------------------------------------------
(* Arithmetic of the numbers                                               *)

\* Largest integer the arithmetic below may produce.
MaxInt == (1073741823 * 2) + 1

Abs(x) == IF x < 0 THEN -x ELSE x

Sgn(x) == IF x < 0 THEN -1 ELSE IF x = 0 THEN 0 ELSE 1

RECURSIVE GCD(_, _)
GCD(a, b) == IF b = 0 THEN a ELSE GCD(b, a % b)

\* The rational p/q (q # 0) in lowest terms.
R(p, q) ==
    LET g == GCD(Abs(p), Abs(q))
    IN  [n |-> Sgn(q) * (p \div g), d |-> Abs(q) \div g]

\* A number literal without a fraction.
I(k) == [n |-> k, d |-> 1]

Zero == I(0)

One == I(1)

PosInfinity == [n |-> 1, d |-> 0]

NegInfinity == [n |-> -1, d |-> 0]

NaN == [n |-> 0, d |-> 0]

IsFinite(a) == a.d > 0

IsInteger(a) == a.d = 1

\* a + b; Infinity + -Infinity and every sum with NaN are NaN.
RAdd(a, b) ==
    IF a.d = 0
    THEN IF b.d = 0 THEN (IF a.n = b.n THEN a ELSE NaN) ELSE a
    ELSE IF b.d = 0
    THEN b
    ELSE LET g == GCD(a.d, b.d)
         IN  R(a.n * (b.d \div g) + b.n * (a.d \div g), (a.d \div g) * b.d)

RNeg(a) == [n |-> -a.n, d |-> a.d]

\* a - b.
RSub(a, b) == RAdd(a, RNeg(b))

\* a * b; a non-finite operand gives Infinity, -Infinity or NaN as in IEEE-754.
RMul(a, b) ==
    IF a.d = 0 \/ b.d = 0
    THEN [n |-> Sgn(a.n) * Sgn(b.n), d |-> 0]
    ELSE LET g1 == GCD(Abs(a.n), b.d)
             g2 == GCD(Abs(b.n), a.d)
         IN  [n |-> (a.n \div g1) * (b.n \div g2),
              d |-> (a.d \div g2) * (b.d \div g1)]

\* a / b; division by zero gives Infinity, -Infinity (by the sign of a) or
\* NaN (0/0), as the JavaScript operator / does; a finite number divided by
\* an infinite one is 0.
RDiv(a, b) ==
    IF b.d = 0
    THEN IF b.n = 0 THEN NaN ELSE IF a.d = 0 THEN NaN ELSE Zero
    ELSE IF b.n = 0
    THEN [n |-> Sgn(a.n), d |-> 0]
    ELSE RMul(a, [n |-> Sgn(b.n) * b.d, d |-> Abs(b.n)])

IsNaN(a) == a.d = 0 /\ a.n = 0

\* a < b and a <= b; a comparison with NaN is false.
RLt(a, b) ==
    IF a.d = 0
    THEN IF a.n = 0 THEN FALSE
         ELSE IF b.d = 0 THEN (IF b.n = 0 THEN FALSE ELSE a.n < b.n)
         ELSE a.n < 0
    ELSE IF b.d = 0
    THEN b.n > 0
    ELSE a.n * b.d < b.n * a.d

RLe(a, b) ==
    IF a.d = 0
    THEN IF a.n = 0 THEN FALSE
         ELSE IF b.d = 0 THEN (IF b.n = 0 THEN FALSE ELSE a.n <= b.n)
         ELSE a.n < 0
    ELSE IF b.d = 0
    THEN b.n > 0
    ELSE a.n * b.d <= b.n * a.d

\* Math.max and Math.min; NaN when an argument is NaN.
MathMax(a, b) ==
    IF IsNaN(a) THEN a ELSE IF IsNaN(b) THEN b
    ELSE IF RLt(a, b) THEN b ELSE a

MathMin(a, b) ==
    IF IsNaN(a) THEN a ELSE IF IsNaN(b) THEN b
    ELSE IF RLt(b, a) THEN b ELSE a

\* Math.pow(a, k) for an exponent k that is a natural number.
RECURSIVE MathPow(_, _)
MathPow(a, k) == IF k = 0 THEN One ELSE RMul(a, MathPow(a, k - 1))

\* Math.round: the integer floor(a + 1/2); a non-finite argument is returned
\* as it is.  (\div rounds towards minus infinity and % is never negative.)
MathRound(a) ==
    IF a.d = 0
    THEN a
    ELSE I((a.n \div a.d) + (IF 2 * (a.n % a.d) >= a.d THEN 1 ELSE 0))

----------------------------------------------------------------------------
(* IEEE 754 binary64, positive normal values: sig * 2^e with               *)
(* 2^52 <= sig < 2^53, sig held in four digits of 14 bits, the least       *)
(* significant first.  Results are rounded to nearest, ties to even.       *)

DigitBase == 16384

RECURSIVE Pow2(_)
Pow2(k) == IF k = 0 THEN 1 ELSE 2 * Pow2(k - 1)

\* The digits of the number whose digit sums are cols, with carry c added.
RECURSIVE Carry(_, _)
Carry(cols, c) ==
    IF cols = <<>>
    THEN <<c>>
    ELSE LET t == Head(cols) + c
         IN  <<t % DigitBase>> \o Carry(Tail(cols), t \div DigitBase)

Term(a, b, i, k) == IF (k + 1 - i) \in 1..4 THEN a[i] * b[k + 1 - i] ELSE 0

\* Digit sum k of the product of the significands a and b.
Column(a, b, k) ==
    Term(a, b, 1, k) + Term(a, b, 2, k) + Term(a, b, 3, k) + Term(a, b, 4, k)

\* sig + 1, renormalised when it reaches 2^53.
RoundedUp(sig, e) ==
    LET s == Carry(<<sig[1] + 1, sig[2], sig[3]>>, 0)
        top == sig[4] + s[4]
    IN  IF top = 2048
        THEN [sig |-> <<0, 0, 0, 1024>>, e |-> e + 1]
        ELSE [sig |-> <<s[1], s[2], s[3], top>>, e |-> e]

\* x * y in doubles: the 106-bit product of the significands, cut to 53
\* bits.
DoubleMul(x, y) ==
    LET p == Carry([k \in 1..7 |-> Column(x.sig, y.sig, k)], 0)
        r == IF p[8] >= 128 THEN 11 ELSE 10
        q == [i \in 1..4 |->
                (p[i + 3] \div Pow2(r)) + ((p[i + 4] % Pow2(r)) * Pow2(14 - r))]
        rest == p[4] % Pow2(r)
        half == Pow2(r - 1)
        up == IF rest > half THEN TRUE
              ELSE IF rest < half THEN FALSE
              ELSE IF p[1] + p[2] + p[3] > 0 THEN TRUE
              ELSE q[1] % 2 = 1
        e == x.e + y.e + 42 + r
    IN  IF up THEN RoundedUp(q, e) ELSE [sig |-> q, e |-> e]

\* The exponent of the leading bit of n / d.
RECURSIVE Log2(_, _)
Log2(n, d) ==
    IF n >= 2 * d THEN 1 + Log2(n, 2 * d)
    ELSE IF n < d THEN Log2(2 * n, d) - 1
    ELSE 0

\* Digits ds divided by the small integer d: quotient digits and remainder.
RECURSIVE LongDiv(_, _)
LongDiv(ds, d) ==
    IF ds = <<>>
    THEN [q |-> <<>>, r |-> 0]
    ELSE LET hi == LongDiv(Tail(ds), d)
             t == (hi.r * DigitBase) + Head(ds)
         IN  [q |-> <<t \div d>> \o hi.q, r |-> t % d]

\* The double a numeric literal denotes: the one nearest to the positive
\* rational a (numerator and denominator below 2^14).
DoubleOf(a) ==
    LET k == 52 - Log2(a.n, a.d)
        num == [i \in 1..(k \div 14) |-> 0] \o Carry(<<a.n * Pow2(k % 14)>>, 0)
        dv == LongDiv(num, a.d)
        q == SubSeq(dv.q \o <<0, 0>>, 1, 4)
        up == IF 2 * dv.r > a.d THEN TRUE
              ELSE IF 2 * dv.r < a.d THEN FALSE
              ELSE q[1] % 2 = 1
    IN  IF up THEN RoundedUp(q, -k) ELSE [sig |-> q, e |-> -k]

\* No double is recorded.
NoDouble == [sig |-> <<0, 0, 0, 0>>, e |-> 0]

----------------------------------------------------------------------------
(* Constants: src/src/lib/constants/calculations.ts                        *)

REFERENCE_SPEED == 77

CONVERSION_FACTOR == 10

MILES_PER_KM == R(621371, 1000000)

MAX_RECUPERATION_EFFECTIVENESS == R(25, 100)

AERODYNAMIC_DRAG_SHARE == R(6, 10)

IDEAL_TEMP == 22

COLD_PENALTY_PER_DEGREE == R(15, 1000)

HOT_PENALTY_PER_DEGREE == R(1, 100)

LOW_SPEED_THRESHOLD == 20

HIGH_SPEED_THRESHOLD == 100

VERY_HIGH_SPEED_THRESHOLD == 120

CONSUMPTION_FACTOR_AT_LOW_SPEED_THRESHOLD == R(105, 100)

CONSUMPTION_FACTOR_AT_HIGH_SPEED_THRESHOLD == R(125, 100)

\* A factor at the very high threshold above the one at the high threshold.
ConsumptionFactorStillRising == R(13, 10)

CONSUMPTION_FACTOR_AT_VERY_HIGH_SPEED_THRESHOLD == R(12, 10)

POWER_FACTOR_ABOVE_VERY_HIGH_SPEED == 1

----------------------------------------------------------------------------
(* The estimator: src/unnamed/part_006, lines 186-408                      *)

\* calculateSpeedFactor without its low-speed branch: the first interpolation
\* is carried on below the low threshold.
calculateSpeedFactorUnclamped(speed) ==
    RAdd(CONSUMPTION_FACTOR_AT_LOW_SPEED_THRESHOLD,
         RMul(RDiv(RSub(speed, I(LOW_SPEED_THRESHOLD)),
                   RSub(I(HIGH_SPEED_THRESHOLD), I(LOW_SPEED_THRESHOLD))),
              RSub(CONSUMPTION_FACTOR_AT_HIGH_SPEED_THRESHOLD,
                   CONSUMPTION_FACTOR_AT_LOW_SPEED_THRESHOLD)))

\* The earlier calibration of calculateSpeedFactor: a linear and a quadratic
\* term anchored at 77 km/h, floored at 0.1.
calculateSpeedFactorBlended(speed) ==
    LET speedRatio == RDiv(MathMax(Zero, speed), I(77))
    IN  MathMax(R(1, 10),
                RAdd(RMul(R(3, 10), speedRatio),
                     RMul(RMul(R(7, 10), speedRatio), speedRatio)))

\* calculateSpeedFactor without its falling segment: the power law starts
\* at the high threshold.
calculateSpeedFactorTwoSegment(speed) ==
    LET safeSpeed == MathMax(Zero, speed)
    IN  IF RLe(safeSpeed, I(LOW_SPEED_THRESHOLD))
        THEN CONSUMPTION_FACTOR_AT_LOW_SPEED_THRESHOLD
        ELSE IF RLe(safeSpeed, I(HIGH_SPEED_THRESHOLD))
        THEN calculateSpeedFactorUnclamped(safeSpeed)
        ELSE RMul(CONSUMPTION_FACTOR_AT_VERY_HIGH_SPEED_THRESHOLD,
                  RDiv(safeSpeed, I(VERY_HIGH_SPEED_THRESHOLD)))

calculateSpeedFactor(speed) ==
    LET safeSpeed == MathMax(Zero, speed)
    IN  IF RLe(safeSpeed, I(LOW_SPEED_THRESHOLD))
        THEN CONSUMPTION_FACTOR_AT_LOW_SPEED_THRESHOLD
        ELSE IF RLe(safeSpeed, I(HIGH_SPEED_THRESHOLD))
        THEN LET ratio == RDiv(RSub(safeSpeed, I(LOW_SPEED_THRESHOLD)),
                               RSub(I(HIGH_SPEED_THRESHOLD), I(LOW_SPEED_THRESHOLD)))
             IN  RAdd(CONSUMPTION_FACTOR_AT_LOW_SPEED_THRESHOLD,
                      RMul(ratio,
                           RSub(CONSUMPTION_FACTOR_AT_HIGH_SPEED_THRESHOLD,
                                CONSUMPTION_FACTOR_AT_LOW_SPEED_THRESHOLD)))
        ELSE IF RLe(safeSpeed, I(VERY_HIGH_SPEED_THRESHOLD))
        THEN LET ratio == RDiv(RSub(safeSpeed, I(HIGH_SPEED_THRESHOLD)),
                               RSub(I(VERY_HIGH_SPEED_THRESHOLD), I(HIGH_SPEED_THRESHOLD)))
             IN  RAdd(CONSUMPTION_FACTOR_AT_HIGH_SPEED_THRESHOLD,
                      RMul(ratio,
                           RSub(CONSUMPTION_FACTOR_AT_VERY_HIGH_SPEED_THRESHOLD,
                                CONSUMPTION_FACTOR_AT_HIGH_SPEED_THRESHOLD)))
        ELSE LET ratio == RDiv(safeSpeed, I(VERY_HIGH_SPEED_THRESHOLD))
             IN  RMul(CONSUMPTION_FACTOR_AT_VERY_HIGH_SPEED_THRESHOLD,
                      MathPow(ratio, POWER_FACTOR_ABOVE_VERY_HIGH_SPEED))

\* calculateWindFactor without its floor of 0.5.
calculateWindFactorUnfloored(speed, windSpeed) ==
    IF RLt(speed, One)
    THEN One
    ELSE LET airSpeed == MathMax(Zero, RAdd(speed, windSpeed))
             ratio == RDiv(airSpeed, speed)
         IN  RAdd(RSub(One, AERODYNAMIC_DRAG_SHARE),
                  RMul(RMul(AERODYNAMIC_DRAG_SHARE, ratio), ratio))

\* calculateWindFactor with an air speed that may be negative.
calculateWindFactorSignedAir(speed, windSpeed) ==
    IF RLt(speed, One)
    THEN One
    ELSE LET airSpeed == RAdd(speed, windSpeed)
             ratio == RDiv(airSpeed, speed)
             factor == RAdd(RSub(One, AERODYNAMIC_DRAG_SHARE),
                            RMul(RMul(AERODYNAMIC_DRAG_SHARE, ratio), ratio))
         IN  MathMax(R(5, 10), factor)

\* calculateWindFactor with the air speed taken relative to the reference
\* speed instead of the speed of the car.
calculateWindFactorReferenceRatio(speed, windSpeed) ==
    IF RLt(speed, One)
    THEN One
    ELSE LET airSpeed == MathMax(Zero, RAdd(speed, windSpeed))
             ratio == RDiv(airSpeed, I(REFERENCE_SPEED))
             factor == RAdd(RSub(One, AERODYNAMIC_DRAG_SHARE),
                            RMul(RMul(AERODYNAMIC_DRAG_SHARE, ratio), ratio))
         IN  MathMax(R(5, 10), factor)

\* calculateWindFactor whose guard lets the speeds between 0 and 1 through.
calculateWindFactorZeroGuard(speed, windSpeed) ==
    IF RLe(speed, Zero)
    THEN One
    ELSE LET airSpeed == MathMax(Zero, RAdd(speed, windSpeed))
             ratio == RDiv(airSpeed, speed)
             factor == RAdd(RSub(One, AERODYNAMIC_DRAG_SHARE),
                            RMul(RMul(AERODYNAMIC_DRAG_SHARE, ratio), ratio))
         IN  MathMax(R(5, 10), factor)

\* calculateWindFactor with drag linear in the air speed.
calculateWindFactorLinear(speed, windSpeed) ==
    IF RLt(speed, One)
    THEN One
    ELSE LET airSpeed == MathMax(Zero, RAdd(speed, windSpeed))
             ratio == RDiv(airSpeed, speed)
             factor == RAdd(RSub(One, AERODYNAMIC_DRAG_SHARE),
                            RMul(AERODYNAMIC_DRAG_SHARE, ratio))
         IN  MathMax(R(5, 10), factor)

\* calculateWindFactor without the guard on the speed.
calculateWindFactorUnguarded(speed, windSpeed) ==
    LET airSpeed == MathMax(Zero, RAdd(speed, windSpeed))
        ratio == RDiv(airSpeed, speed)
        factor == RAdd(RSub(One, AERODYNAMIC_DRAG_SHARE),
                       RMul(RMul(AERODYNAMIC_DRAG_SHARE, ratio), ratio))
    IN  MathMax(R(5, 10), factor)

calculateWindFactor(speed, windSpeed) ==
    IF RLt(speed, One)
    THEN One
    ELSE LET airSpeed == MathMax(Zero, RAdd(speed, windSpeed))
             ratio == RDiv(airSpeed, speed)
             factor == RAdd(RSub(One, AERODYNAMIC_DRAG_SHARE),
                            RMul(RMul(AERODYNAMIC_DRAG_SHARE, ratio), ratio))
         IN  MathMax(R(5, 10), factor)

\* calculateTempFactor of the earlier calibration: 1 % per degree below
\* 20, nothing up to 30, 0.5 % per degree above 30.
calculateTempFactorEarlier(temperature) ==
    IF RLt(temperature, I(20))
    THEN RAdd(One, RMul(RSub(I(20), temperature), R(1, 100)))
    ELSE RAdd(One, RMul(MathMax(Zero, RSub(temperature, I(30))), R(5, 1000)))

calculateTempFactor(temperature) ==
    IF RLt(temperature, I(IDEAL_TEMP))
    THEN RAdd(One, RMul(RSub(I(IDEAL_TEMP), temperature), COLD_PENALTY_PER_DEGREE))
    ELSE RAdd(One, RMul(RSub(temperature, I(IDEAL_TEMP)), HOT_PENALTY_PER_DEGREE))

\* calculateRecuperationFactor without the clamp to [0, 100].
calculateRecuperationFactorUnclamped(recuperation) ==
    RSub(One, RMul(RDiv(recuperation, I(100)), MAX_RECUPERATION_EFFECTIVENESS))

\* calculateRecuperationFactor that charges for recuperation.
calculateRecuperationFactorInverted(recuperation) ==
    LET perc == RDiv(MathMin(MathMax(recuperation, Zero), I(100)), I(100))
    IN  RAdd(One, RMul(perc, MAX_RECUPERATION_EFFECTIVENESS))

calculateRecuperationFactor(recuperation) ==
    LET perc == RDiv(MathMin(MathMax(recuperation, Zero), I(100)), I(100))
    IN  RSub(One, RMul(perc, MAX_RECUPERATION_EFFECTIVENESS))

\* calculateRoadSlopeFactor without its floor of 0.1.
calculateRoadSlopeFactorUnfloored(roadSlope) ==
    RAdd(One, RMul(roadSlope, R(2, 100)))

\* calculateRoadSlopeFactor with the floor of the wind factor, 0.5.
calculateRoadSlopeFactorHalfFloor(roadSlope) ==
    MathMax(R(5, 10), RAdd(One, RMul(roadSlope, R(2, 100))))

calculateRoadSlopeFactor(roadSlope) ==
    MathMax(R(1, 10), RAdd(One, RMul(roadSlope, R(2, 100))))

calculateConsumptionFactor(consumption) ==
    RMul(consumption, I(CONVERSION_FACTOR))

\* calculateEnergyConsumption with its last factor left out.
calculateEnergyConsumptionShort(consumptionFactor, speedFactor, windFactor, tempFactor, roadSlopeFactor, recuperationFactor) ==
    RMul(RMul(RMul(RMul(consumptionFactor, speedFactor), windFactor),
              tempFactor), roadSlopeFactor)

calculateEnergyConsumption(consumptionFactor, speedFactor, windFactor, tempFactor, roadSlopeFactor, recuperationFactor) ==
    RMul(RMul(RMul(RMul(RMul(consumptionFactor, speedFactor), windFactor),
                   tempFactor), roadSlopeFactor), recuperationFactor)

\* calculateEnergyConsumption as the doubles compute it: the literals
\* passed are converted, and each of the five products, taken from left to
\* right, is rounded.
calculateEnergyConsumptionDouble(consumptionFactor, speedFactor, windFactor, tempFactor, roadSlopeFactor, recuperationFactor) ==
    DoubleMul(DoubleMul(DoubleMul(DoubleMul(DoubleMul(DoubleOf(consumptionFactor),
                                                      DoubleOf(speedFactor)),
                                            DoubleOf(windFactor)),
                                  DoubleOf(tempFactor)),
                        DoubleOf(roadSlopeFactor)),
              DoubleOf(recuperationFactor))

\* calculateRangeKm with Math.floor in the place of Math.round.
calculateRangeKmFloored(battery, adjustedWhPerKm) ==
    LET quotient == RDiv(RMul(battery, I(1000)), adjustedWhPerKm)
    IN  IF quotient.d = 0 THEN quotient ELSE I(quotient.n \div quotient.d)

calculateRangeKm(battery, adjustedWhPerKm) ==
    MathRound(RDiv(RMul(battery, I(1000)), adjustedWhPerKm))

\* calculateRangeMi with Math.floor in the place of Math.round.
calculateRangeMiFloored(rangeKm) ==
    LET miles == RMul(rangeKm, MILES_PER_KM)
    IN  IF miles.d = 0 THEN miles ELSE I(miles.n \div miles.d)

calculateRangeMi(rangeKm) ==
    MathRound(RMul(rangeKm, MILES_PER_KM))

\* calculateRange that returns the estimate kept in carStore while there
\* is one.
calculateRangeRetained(car, par) ==
    LET speedFactor == calculateSpeedFactor(I(car.speed))
        windFactor == calculateWindFactor(I(car.speed), I(par.windSpeed))
        tempFactor == calculateTempFactor(I(par.temperature))
        recuperationFactor == calculateRecuperationFactor(I(par.recuperation))
        roadSlopeFactor == calculateRoadSlopeFactor(I(par.roadSlope))
        consumptionFactor == calculateConsumptionFactor(I(car.consumption))
        energyConsumption ==
            calculateEnergyConsumption(consumptionFactor, speedFactor, windFactor,
                                       tempFactor, roadSlopeFactor, recuperationFactor)
        rangeKm == IF RLt(Zero, car.range)
                   THEN car.range
                   ELSE calculateRangeKm(I(car.battery), energyConsumption)
        rangeMi == IF RLt(Zero, car.range)
                   THEN car.rangeMi
                   ELSE calculateRangeMi(rangeKm)
    IN  [returned |-> TRUE,
         speedFactor |-> speedFactor,
         windFactor |-> windFactor,
         tempFactor |-> tempFactor,
         recuperationFactor |-> recuperationFactor,
         roadSlopeFactor |-> roadSlopeFactor,
         consumptionFactor |-> consumptionFactor,
         energyConsumption |-> energyConsumption,
         rangeKm |-> rangeKm,
         rangeMi |-> rangeMi]

\* calculateRange() on the stores car and par: its locals and its return
\* value {rangeKm, rangeMi}.
calculateRange(car, par) ==
    LET battery == I(car.battery)
        consumption == I(car.consumption)
        speed == I(car.speed)
        windSpeed == I(par.windSpeed)
        temperature == I(par.temperature)
        roadSlope == I(par.roadSlope)
        recuperation == I(par.recuperation)
        speedFactor == calculateSpeedFactor(speed)
        windFactor == calculateWindFactor(speed, windSpeed)
        tempFactor == calculateTempFactor(temperature)
        recuperationFactor == calculateRecuperationFactor(recuperation)
        roadSlopeFactor == calculateRoadSlopeFactor(roadSlope)
        consumptionFactor == calculateConsumptionFactor(consumption)
        energyConsumption ==
            calculateEnergyConsumption(consumptionFactor, speedFactor, windFactor,
                                       tempFactor, roadSlopeFactor, recuperationFactor)
        rangeKm == calculateRangeKm(battery, energyConsumption)
        rangeMi == calculateRangeMi(rangeKm)
    IN  [returned |-> TRUE,
         speedFactor |-> speedFactor,
         windFactor |-> windFactor,
         tempFactor |-> tempFactor,
         recuperationFactor |-> recuperationFactor,
         roadSlopeFactor |-> roadSlopeFactor,
         consumptionFactor |-> consumptionFactor,
         energyConsumption |-> energyConsumption,
         rangeKm |-> rangeKm,
         rangeMi |-> rangeMi]

----------------------------------------------------------------------------
(* The part of the input space that 32-bit integers can hold              *)

MulFits(x, y) == IF x = 0 THEN TRUE ELSE IF y = 0 THEN TRUE ELSE Abs(x) <= MaxInt \div Abs(y)

\* The product RMul(a, b) does not exceed MaxInt; a product with an
\* operand that is not finite takes no multiplication.
RMulFits(a, b) ==
    IF a.d = 0 THEN TRUE
    ELSE IF b.d = 0 THEN TRUE
    ELSE LET g1 == GCD(Abs(a.n), b.d)
             g2 == GCD(Abs(b.n), a.d)
         IN  /\ MulFits(a.n \div g1, b.n \div g2)
             /\ MulFits(a.d \div g2, b.d \div g1)

\* calculateRange() on these stores stays within MaxInt in all its steps.
\* The model explores the calls for which this holds.
Representable(car, par) ==
    LET speed == I(car.speed)
        f0 == calculateConsumptionFactor(I(car.consumption))
        f1 == calculateSpeedFactor(speed)
        f2 == calculateWindFactor(speed, I(par.windSpeed))
        f3 == calculateTempFactor(I(par.temperature))
        f4 == calculateRoadSlopeFactor(I(par.roadSlope))
        f5 == calculateRecuperationFactor(I(par.recuperation))
        p1 == RMul(f0, f1)
        p2 == RMul(p1, f2)
        p3 == RMul(p2, f3)
        p4 == RMul(p3, f4)
        energy == RMul(p4, f5)
        wattHours == RMul(I(car.battery), I(1000))
        inverse == [n |-> Sgn(energy.n) * energy.d, d |-> Abs(energy.n)]
        quotient == RDiv(wattHours, energy)
    IN  /\ RMulFits(f0, f1)
        /\ RMulFits(p1, f2)
        /\ RMulFits(p2, f3)
        /\ RMulFits(p3, f4)
        /\ RMulFits(p4, f5)
        /\ IF energy.n = 0
           THEN TRUE
           ELSE /\ RMulFits(wattHours, inverse)
                /\ MulFits(2, quotient.n % quotient.d)
                /\ RMulFits(calculateRangeKm(I(car.battery), energy), MILES_PER_KM)

----------------------------------------------------------------------------
(* State                                                                   *)

\* The values an input field is given.
Batteries == {0, 20, 66, 75}

Consumptions == {0, 15, 16, 19, 21}

Speeds == {-10, 0, 20, 77, 80, 100, 120, 180}

WindSpeeds == {-200, 0, 20}

Temperatures == {-18, 20, 32}

RoadSlopes == {-100, 0}

Recuperations == {10, 150}

\* parameterStore as constructed.
parameterStoreInit ==
    [windSpeed |-> 0, temperature |-> 20, roadSlope |-> 0, recuperation |-> 10]

\* carStore as the unit tests set it up, with no estimate written yet.
carStoreInit ==
    [battery |-> 75, consumption |-> 15, speed |-> 77, range |-> Zero, rangeMi |-> Zero]

\* No call of calculateRange() has returned since the last write to a store.
NoReturn ==
    [returned |-> FALSE,
     speedFactor |-> Zero, windFactor |-> Zero, tempFactor |-> Zero,
     recuperationFactor |-> Zero, roadSlopeFactor |-> Zero,
     consumptionFactor |-> Zero, energyConsumption |-> Zero,
     rangeKm |-> Zero, rangeMi |-> Zero]

\* No exported function is being called on its own.
NoCall ==
    [fn |-> "none", args |-> <<>>, done |-> FALSE, out |-> Zero,
     double |-> NoDouble]

\* No caller is at work besides the one that writes and calls.
NoCallers == <<>>

Init ==
    /\ carStore = carStoreInit
    /\ parameterStore = parameterStoreInit
    /\ ret = NoReturn
    /\ call = NoCall
    /\ callers = NoCallers

(* Writes to the stores: the bound input fields, and the assignments of    *)
(* the tests.  The caller of an earlier calculateRange() has its result by *)
(* then, so the write starts from no pending return value.                 *)

SetBattery(v) ==
    /\ carStore' = [carStore EXCEPT !.battery = v]
    /\ ret' = NoReturn
    /\ UNCHANGED <<parameterStore, call, callers>>

SetConsumption(v) ==
    /\ carStore' = [carStore EXCEPT !.consumption = v]
    /\ ret' = NoReturn
    /\ UNCHANGED <<parameterStore, call, callers>>

SetSpeed(v) ==
    /\ carStore' = [carStore EXCEPT !.speed = v]
    /\ ret' = NoReturn
    /\ UNCHANGED <<parameterStore, call, callers>>

SetWindSpeed(v) ==
    /\ parameterStore' = [parameterStore EXCEPT !.windSpeed = v]
    /\ ret' = NoReturn
    /\ UNCHANGED <<carStore, call, callers>>

SetTemperature(v) ==
    /\ parameterStore' = [parameterStore EXCEPT !.temperature = v]
    /\ ret' = NoReturn
    /\ UNCHANGED <<carStore, call, callers>>

SetRoadSlope(v) ==
    /\ parameterStore' = [parameterStore EXCEPT !.roadSlope = v]
    /\ ret' = NoReturn
    /\ UNCHANGED <<carStore, call, callers>>

SetRecuperation(v) ==
    /\ parameterStore' = [parameterStore EXCEPT !.recuperation = v]
    /\ ret' = NoReturn
    /\ UNCHANGED <<carStore, call, callers>>

\* A call of calculateRange() that also assigns what it returns to
\* carStore.range and carStore.rangeMi.
CalculateRangeStoring ==
    /\ Representable(carStore, parameterStore)
    /\ ret' = calculateRange(carStore, parameterStore)
    /\ carStore' = [carStore EXCEPT !.range = ret'.rangeKm,
                                    !.rangeMi = ret'.rangeMi]
    /\ UNCHANGED <<parameterStore, call, callers>>

\* A caller invokes calculateRange() and receives its return value.
CalculateRange ==
    /\ Representable(carStore, parameterStore)
    /\ ret' = calculateRange(carStore, parameterStore)
    /\ UNCHANGED <<carStore, parameterStore, call, callers>>

Next ==
    \/ \E v \in Batteries : SetBattery(v)
    \/ \E v \in Consumptions : SetConsumption(v)
    \/ \E v \in Speeds : SetSpeed(v)
    \/ \E v \in WindSpeeds : SetWindSpeed(v)
    \/ \E v \in Temperatures : SetTemperature(v)
    \/ \E v \in RoadSlopes : SetRoadSlope(v)
    \/ \E v \in Recuperations : SetRecuperation(v)
    \/ CalculateRange

Spec == Init /\ [][Next]_vars

(***************************************************************************)
(* The exported functions called on their own, as the unit tests call      *)
(* them.  They take their arguments explicitly and read no store, so a     *)
(* case is a function name with an argument list; calculateRange() takes   *)
(* its inputs from the stores, so its cases are store contents.            *)
(***************************************************************************)

MaxSpeedArg == 240

MaxNegSpeedArg == 20

MaxBatteryArg == 3

MaxAdjustedArg == 400

MaxKmArg == 1000

MaxConsumptionArg == 30

MaxWindCaseSpeed == 12

MaxWindCaseSteps == 9

MaxWindArg == 60

MaxTempArg == 60

MaxRecuperationArg == 150

MaxSlopeArg == 100

\* Speeds in steps of one half, from below zero to beyond every threshold.
SpeedArgs == {R(k, 2) : k \in (-(2 * MaxNegSpeedArg))..(2 * MaxSpeedArg)}

BatteryArgs == {I(k) : k \in 0..MaxBatteryArg}

\* Positive adjusted consumptions in steps of one half.
AdjustedArgs == {R(k, 2) : k \in 1..(2 * MaxAdjustedArg)}

KmArgs == {I(k) : k \in 0..MaxKmArg}

ConsumptionArgs ==
    {R(k, 2) : k \in (-(2 * MaxConsumptionArg))..(2 * MaxConsumptionArg)}

\* Speeds for calculateWindFactor: steps of one half from -2 on, across the
\* guard at 1, and steps of 20 beyond.
WindCaseSpeeds ==
    {R(k, 2) : k \in (-4)..(2 * MaxWindCaseSpeed)}
    \cup {I(20 * k) : k \in 1..MaxWindCaseSteps}

\* Wind speeds: tailwinds (negative) and headwinds.
WindArgs == {I(k) : k \in (-MaxWindArg)..MaxWindArg}

TemperatureArgs == {R(k, 2) : k \in (-(2 * MaxTempArg))..(2 * MaxTempArg)}

\* Recuperation settings from 50 below the scale of 0..100 to beyond it.
RecuperationArgs == {R(k, 2) : k \in (-100)..(2 * MaxRecuperationArg)}

RoadSlopeArgs == {R(k, 2) : k \in (-(2 * MaxSlopeArg))..(2 * MaxSlopeArg)}

\* The six arguments of the unit test of calculateEnergyConsumption.
EnergyTestArgs == <<I(100), R(12, 10), R(9, 10), R(11, 10), One, R(8, 10)>>

\* The same six values in every order.
EnergyArgs ==
    {[i \in 1..6 |-> EnergyTestArgs[p[i]]] : p \in Permutations(1..6)}

Case(f, as) ==
    [fn |-> f, args |-> as, done |-> FALSE, out |-> Zero, double |-> NoDouble]

TestInit ==
    /\ ret = NoReturn
    /\ callers = NoCallers
    /\ \/ /\ call = Case("calculateRange", <<>>)
          /\ carStore \in [battery : Batteries, consumption : Consumptions,
                            speed : Speeds, range : {Zero}, rangeMi : {Zero}]
          /\ parameterStore \in [windSpeed : WindSpeeds,
                                  temperature : Temperatures,
                                  roadSlope : RoadSlopes,
                                  recuperation : Recuperations]
       \/ /\ carStore = carStoreInit
          /\ parameterStore = parameterStoreInit
          /\ call \in
                {Case("calculateSpeedFactor", <<s>>) : s \in SpeedArgs}
                \cup {Case("calculateRangeKm", <<b, a>>) :
                          b \in BatteryArgs, a \in AdjustedArgs}
                \cup {Case("calculateRangeMi", <<k>>) : k \in KmArgs}
                \cup {Case("calculateConsumptionFactor", <<c>>) :
                          c \in ConsumptionArgs}
                \cup {Case("calculateEnergyConsumption", as) :
                          as \in EnergyArgs}
                \cup {Case("calculateWindFactor", <<s, w>>) :
                          s \in WindCaseSpeeds, w \in WindArgs}
                \cup {Case("calculateTempFactor", <<t>>) :
                          t \in TemperatureArgs}
                \cup {Case("calculateRecuperationFactor", <<r>>) :
                          r \in RecuperationArgs}
                \cup {Case("calculateRoadSlopeFactor", <<g>>) :
                          g \in RoadSlopeArgs}

\* The call returns v; d is the double returned, where it is computed.
Return(v, d) ==
    /\ ~call.done
    /\ call' = [call EXCEPT !.done = TRUE, !.out = v, !.double = d]
    /\ UNCHANGED <<carStore, parameterStore, ret, callers>>

CallSpeedFactor ==
    /\ call.fn = "calculateSpeedFactor"
    /\ Return(calculateSpeedFactor(call.args[1]), NoDouble)

CallRangeKm ==
    /\ call.fn = "calculateRangeKm"
    /\ Return(calculateRangeKm(call.args[1], call.args[2]), NoDouble)

CallRangeMi ==
    /\ call.fn = "calculateRangeMi"
    /\ Return(calculateRangeMi(call.args[1]), NoDouble)

CallConsumptionFactor ==
    /\ call.fn = "calculateConsumptionFactor"
    /\ Return(calculateConsumptionFactor(call.args[1]), NoDouble)

CallEnergyConsumption ==
    /\ call.fn = "calculateEnergyConsumption"
    /\ Return(calculateEnergyConsumption(call.args[1], call.args[2],
                                         call.args[3], call.args[4],
                                         call.args[5], call.args[6]),
              calculateEnergyConsumptionDouble(call.args[1], call.args[2],
                                               call.args[3], call.args[4],
                                               call.args[5], call.args[6]))

CallWindFactor ==
    /\ call.fn = "calculateWindFactor"
    /\ Return(calculateWindFactor(call.args[1], call.args[2]), NoDouble)

CallTempFactor ==
    /\ call.fn = "calculateTempFactor"
    /\ Return(calculateTempFactor(call.args[1]), NoDouble)

CallRecuperationFactor ==
    /\ call.fn = "calculateRecuperationFactor"
    /\ Return(calculateRecuperationFactor(call.args[1]), NoDouble)

CallRoadSlopeFactor ==
    /\ call.fn = "calculateRoadSlopeFactor"
    /\ Return(calculateRoadSlopeFactor(call.args[1]), NoDouble)

CallRange ==
    /\ call.fn = "calculateRange"
    /\ ~ret.returned
    /\ CalculateRange

TestNext ==
    \/ CallSpeedFactor
    \/ CallRangeKm
    \/ CallRangeMi
    \/ CallConsumptionFactor
    \/ CallEnergyConsumption
    \/ CallWindFactor
    \/ CallTempFactor
    \/ CallRecuperationFactor
    \/ CallRoadSlopeFactor
    \/ CallRange

TestSpec == TestInit /\ [][TestNext]_vars

(***************************************************************************)
(* Two callers of calculateRange().  The function takes no arguments: a    *)
(* caller hands over its seven inputs by assigning them to the fields of   *)
(* carStore and parameterStore, one assignment after the other, and then   *)
(* calls.  The stores are module-level objects, the same for every caller, *)
(* and one caller's statements may run between two statements of the       *)
(* other (two asynchronous tests, two event handlers).  The call itself    *)
(* is synchronous: it runs from its first read to its return in one step.  *)
(***************************************************************************)

Callers == {"A", "B"}

\* The input fields, in the order a caller assigns them.
InputFields ==
    <<"battery", "consumption", "speed",
      "windSpeed", "temperature", "roadSlope", "recuperation">>

\* The inputs a caller may have.
CallerInputs ==
    [battery : {66, 75}, consumption : {15, 16}, speed : {77},
     windSpeed : {0, 20}, temperature : {20}, roadSlope : {0},
     recuperation : {10}]

\* carStore and parameterStore holding the inputs in and nothing else.
CarOf(in) ==
    [battery |-> in.battery, consumption |-> in.consumption,
     speed |-> in.speed, range |-> Zero, rangeMi |-> Zero]

ParametersOf(in) ==
    [windSpeed |-> in.windSpeed, temperature |-> in.temperature,
     roadSlope |-> in.roadSlope, recuperation |-> in.recuperation]

\* Each caller has its inputs, has assigned the fields before InputFields[pc]
\* and has received nothing; the two callers have different inputs.
CallerInit ==
    /\ carStore = carStoreInit
    /\ parameterStore = parameterStoreInit
    /\ ret = NoReturn
    /\ call = NoCall
    /\ callers \in [Callers -> [inputs : CallerInputs, pc : {1}, got : {NoReturn}]]
    /\ callers["A"].inputs # callers["B"].inputs

\* Caller c assigns its next input to the field of the store.
WriteInput(c) ==
    LET me == callers[c]
        field == InputFields[me.pc]
    IN  /\ me.pc <= Len(InputFields)
        /\ IF field \in DOMAIN carStore
           THEN /\ carStore' = [carStore EXCEPT ![field] = me.inputs[field]]
                /\ UNCHANGED parameterStore
           ELSE /\ parameterStore' =
                       [parameterStore EXCEPT ![field] = me.inputs[field]]
                /\ UNCHANGED carStore
        /\ ret' = NoReturn
        /\ callers' = [callers EXCEPT ![c].pc = me.pc + 1]
        /\ UNCHANGED call

\* Caller c, all its inputs assigned, calls calculateRange() and keeps
\* what it returns.
Invoke(c) ==
    /\ callers[c].pc = Len(InputFields) + 1
    /\ Representable(carStore, parameterStore)
    /\ ret' = calculateRange(carStore, parameterStore)
    /\ callers' = [callers EXCEPT ![c].pc = Len(InputFields) + 2,
                                  ![c].got = ret']
    /\ UNCHANGED <<carStore, parameterStore, call>>

CallerNext ==
    \/ \E c \in Callers : WriteInput(c)
    \/ \E c \in Callers : Invoke(c)

CallerSpec == CallerInit /\ [][CallerNext]_vars

(***************************************************************************)
(* The form.  Its input fields are bound to the fields of the stores, so   *)
(* an edit is a write to a store; the Calculate Range button (the submit   *)
(* of the form) calls calculateRange() and assigns the two numbers it      *)
(* returns to carStore.range and carStore.rangeMi; the page shows the      *)
(* estimate while carStore.range > 0.                                      *)
(***************************************************************************)

\* The values typed into the fields.
FormValues ==
    [battery |-> {0, 75}, consumption |-> {0, 15}, speed |-> {77, 100},
     windSpeed |-> {0, 20}, temperature |-> {-18, 20}, roadSlope |-> {-5, 0},
     recuperation |-> {10, 150}]

\* A submit that assigns carStore.range and leaves carStore.rangeMi as it
\* is.
SubmitKilometres ==
    /\ Representable(carStore, parameterStore)
    /\ ret' = calculateRange(carStore, parameterStore)
    /\ carStore' = [carStore EXCEPT !.range = ret'.rangeKm]
    /\ UNCHANGED <<parameterStore, call, callers>>

\* handleSubmit, and the onclick of the Calculate Range button.
Submit ==
    /\ Representable(carStore, parameterStore)
    /\ ret' = calculateRange(carStore, parameterStore)
    /\ carStore' = [carStore EXCEPT !.range = ret'.rangeKm,
                                    !.rangeMi = ret'.rangeMi]
    /\ UNCHANGED <<parameterStore, call, callers>>

\* {#if carStore.range > 0}: the estimate is on the page.
EstimateDisplayed == RLt(Zero, carStore.range)

FormNext ==
    \/ \E v \in FormValues.battery : SetBattery(v)
    \/ \E v \in FormValues.consumption : SetConsumption(v)
    \/ \E v \in FormValues.speed : SetSpeed(v)
    \/ \E v \in FormValues.windSpeed : SetWindSpeed(v)
    \/ \E v \in FormValues.temperature : SetTemperature(v)
    \/ \E v \in FormValues.roadSlope : SetRoadSlope(v)
    \/ \E v \in FormValues.recuperation : SetRecuperation(v)
    \/ Submit

FormSpec == Init /\ [][FormNext]_vars

----------------------------------------------------------------------------
(* Properties of calculateRange() on the stores                            *)

\* A returned estimate was computed from a positive battery capacity and a
\* positive consumption.
ValidInputs == carStore.battery > 0 /\ carStore.consumption > 0

\* x is the integer nearest to num / den (den > 0), the upper one of the
\* two when num / den lies halfway between them.
Nearest(x, num, den) ==
    /\ IsInteger(x)
    /\ 2 * Abs(num - (x.n * den)) <= den
    /\ (2 * Abs(num - (x.n * den)) = den) => (x.n * den > num)

\* C1: calculateRange() returns an estimate only when the battery capacity
\* is positive and the adjusted consumption is positive; otherwise it
\* reports invalid input and returns none.
C1_EstimateOnlyFromValidInput ==
    ret.returned =>
        (carStore.battery > 0 /\ RLt(Zero, ret.energyConsumption))

\* C2: with a positive battery capacity and a positive consumption, and any
\* speed, wind, temperature, slope and recuperation, rangeKm and rangeMi
\* are integers and not negative.
C2_RangeIsNonNegativeInteger ==
    (ret.returned /\ ValidInputs) =>
        /\ IsInteger(ret.rangeKm) /\ ret.rangeKm.n >= 0
        /\ IsInteger(ret.rangeMi) /\ ret.rangeMi.n >= 0

\* An estimate returned with every environment input and the speed outside
\* the intended domain.
C2_Witness ==
    /\ ret.returned /\ ValidInputs
    /\ carStore.speed < 0
    /\ parameterStore.windSpeed = -200
    /\ parameterStore.temperature = -18
    /\ parameterStore.roadSlope = -100
    /\ parameterStore.recuperation = 150
    /\ IsInteger(ret.rangeKm) /\ ret.rangeKm.n > 0
    /\ IsInteger(ret.rangeMi) /\ ret.rangeMi.n > 0

C4_MercedesBands ==
    (ret.returned /\ parameterStore = parameterStoreInit
                  /\ carStore.battery = 66) =>
        /\ (carStore.consumption = 16 /\ carStore.speed = 80) =>
               (390 < ret.rangeKm.n /\ ret.rangeKm.n < 415)
        /\ (carStore.consumption = 19 /\ carStore.speed = 100) =>
               (330 < ret.rangeKm.n /\ ret.rangeKm.n < 350)
        /\ (carStore.consumption = 21 /\ carStore.speed = 120) =>
               (310 < ret.rangeKm.n /\ ret.rangeKm.n < 330)

\* C5: with battery 75, consumption 15, speed 77 and the default
\* environment, calculateRange() returns rangeKm 502 and rangeMi 312.
C5_IntegrationValues ==
    (ret.returned /\ parameterStore = parameterStoreInit
                  /\ carStore.battery = 75
                  /\ carStore.consumption = 15
                  /\ carStore.speed = 77) =>
        (ret.rangeKm = I(502) /\ ret.rangeMi = I(312))

\* C7: the returned rangeMi is the integer nearest to the returned, already
\* rounded, rangeKm times 0.621371.
C7_MilesFromRoundedKm ==
    (ret.returned /\ ValidInputs) =>
        LET miles == RMul(ret.rangeKm, R(621371, 1000000))
        IN  /\ IsInteger(ret.rangeMi)
            /\ \/ /\ 2 * (miles.n % miles.d) < miles.d
                  /\ ret.rangeMi.n = miles.n \div miles.d
               \/ /\ 2 * (miles.n % miles.d) >= miles.d
                  /\ ret.rangeMi.n = (miles.n \div miles.d) + 1

\* The stores as set up: the distance before rounding is 417.51 km, which
\* is 259.43 mi, and the rounded 418 km are 259.73 mi, reported as 260.
C7_Witness ==
    /\ ret.returned
    /\ carStore = carStoreInit
    /\ parameterStore = parameterStoreInit
    /\ ret.rangeKm = I(418)
    /\ ret.rangeMi = I(260)

----------------------------------------------------------------------------
(* Properties of the exported functions                                    *)

Returned(f) == call.fn = f /\ call.done

\* C6: for a battery capacity of at least 0 and a positive adjusted
\* consumption, calculateRangeKm returns the integer nearest to
\* battery * 1000 / adjustedWhPerKm, the one away from zero when the
\* quotient lies halfway between two integers; calculateRangeMi rounds
\* rangeKm * 0.621371 by the same rule.
C6_RoundsToNearestHalfAwayFromZero ==
    /\ Returned("calculateRangeKm") =>
           Nearest(call.out,
                   call.args[1].n * 1000 * call.args[2].d,
                   call.args[1].d * call.args[2].n)
    /\ Returned("calculateRangeMi") =>
           Nearest(call.out, call.args[1].n * 621371, 1000000 * call.args[1].d)

\* calculateRangeKm(1, 400): the quotient is 2.5 and the result is 3.
C6_Witness ==
    /\ Returned("calculateRangeKm")
    /\ call.args = <<I(1), I(400)>>
    /\ call.out = I(3)

\* The number of doubles from x to y, when they are close.
UlpsApart(x, y) ==
    IF x.e = y.e /\ SubSeq(x.sig, 2, 4) = SubSeq(y.sig, 2, 4)
    THEN Abs(x.sig[1] - y.sig[1])
    ELSE DigitBase

\* The adjusted consumption of calculateRange() is the consumption times 10
\* times the five factors, and calculateConsumptionFactor(c) is c * 10.
AdjustedConsumptionIsProduct ==
    /\ ret.returned =>
           /\ ret.consumptionFactor = I(carStore.consumption * 10)
           /\ ret.energyConsumption =
                  RMul(RMul(RMul(RMul(RMul(I(carStore.consumption * 10),
                                           ret.speedFactor),
                                      ret.windFactor),
                                 ret.tempFactor),
                            ret.roadSlopeFactor),
                       ret.recuperationFactor)
    /\ Returned("calculateConsumptionFactor") =>
           call.out.n * call.args[1].d = 10 * call.args[1].n * call.out.d

\* The real-number product of the six arguments of the call.
ProductOfArgs ==
    R(call.args[1].n * call.args[2].n * call.args[3].n
          * call.args[4].n * call.args[5].n * call.args[6].n,
      call.args[1].d * call.args[2].d * call.args[3].d
          * call.args[4].d * call.args[5].d * call.args[6].d)

\* C8, as claimed: the adjusted consumption of calculateRange() is the
\* consumption times 10 times the speed, wind, temperature, slope and
\* recuperation factors; calculateConsumptionFactor(c) is c * 10; and
\* calculateEnergyConsumption returns the same value for every permutation
\* of its six arguments.
C8_SameValueInEveryOrder ==
    /\ AdjustedConsumptionIsProduct
    /\ Returned("calculateEnergyConsumption") =>
           call.double =
               calculateEnergyConsumptionDouble(
                   EnergyTestArgs[1], EnergyTestArgs[2], EnergyTestArgs[3],
                   EnergyTestArgs[4], EnergyTestArgs[5], EnergyTestArgs[6])

\* C8, amended: the adjusted consumption of calculateRange() is the
\* consumption times 10 times the five factors; calculateConsumptionFactor(c)
\* is c * 10; and calculateEnergyConsumption returns the product of its six
\* arguments, which as a real number is the same in every order of the
\* arguments and as a double lies within two doubles of the one nearest to
\* that product.
C8_AdjustedConsumptionIsProduct ==
    /\ AdjustedConsumptionIsProduct
    /\ Returned("calculateEnergyConsumption") =>
           /\ call.out = ProductOfArgs
           /\ UlpsApart(call.double, DoubleOf(ProductOfArgs)) <= 2

\* calculateEnergyConsumption(0.9, 1, 0.8, 100, 1.2, 1.1): the arguments of
\* the unit test in another order, returning 95.04000000000003 where the
\* order of the test returns 95.04000000000002.
C8_Witness ==
    /\ Returned("calculateEnergyConsumption")
    /\ call.args = <<R(9, 10), One, R(8, 10), I(100), R(12, 10), R(11, 10)>>
    /\ call.out = R(9504, 100)
    /\ UlpsApart(call.double, DoubleOf(call.out)) = 2
    /\ UlpsApart(call.double,
                 calculateEnergyConsumptionDouble(
                     I(100), R(12, 10), R(9, 10), R(11, 10), One, R(8, 10))) = 1

SpeedFactorReference(s) ==
    IF RLe(s, I(100))
    THEN RAdd(R(105, 100), RMul(RDiv(RSub(s, I(20)), I(80)), R(20, 100)))
    ELSE IF RLe(s, I(120))
    THEN RAdd(R(125, 100),
              RMul(RDiv(RSub(s, I(100)), I(20)), RSub(R(12, 10), R(125, 100))))
    ELSE RMul(R(12, 10), RDiv(s, I(120)))

RegionFormulaAt(s, side) ==
    RSub(RMul(I(2), calculateSpeedFactor(RAdd(s, R(side, 2)))),
         calculateSpeedFactor(RAdd(s, I(side))))

\* C11: at the breakpoints 20, 100 and 120 the formula of the region that
\* ends there and the formula of the region that starts there both give
\* the value calculateSpeedFactor returns: 1.05, 1.25 and 1.2.
C11_NoJumpAtBreakpoints ==
    /\ (Returned("calculateSpeedFactor") /\ call.args[1] = I(20)) =>
           call.out = R(105, 100)
    /\ (Returned("calculateSpeedFactor") /\ call.args[1] = I(100)) =>
           call.out = R(125, 100)
    /\ (Returned("calculateSpeedFactor") /\ call.args[1] = I(120)) =>
           call.out = R(12, 10)
    /\ (Returned("calculateSpeedFactor")
            /\ call.args[1] \in {I(20), I(100), I(120)}) =>
           /\ RegionFormulaAt(call.args[1], -1) = call.out
           /\ RegionFormulaAt(call.args[1], 1) = call.out

\* calculateSpeedFactor(100), where the rising segment (1.24875 at 99.5)
\* meets the falling one (1.24875 at 100.5).
C11_Witness ==
    /\ Returned("calculateSpeedFactor")
    /\ call.args = <<I(100)>>
    /\ call.out = R(125, 100)
    /\ calculateSpeedFactor(R(199, 2)) = R(124875, 100000)
    /\ calculateSpeedFactor(R(201, 2)) = R(124875, 100000)

\* C12: calculateSpeedFactor(REFERENCE_SPEED) is 1, the neutral multiplier.
C12_NeutralAtReferenceSpeed ==
    (Returned("calculateSpeedFactor") /\ call.args[1] = I(REFERENCE_SPEED)) =>
        call.out = One

\* max(0.5, 0.4 + 0.6 * (max(0, speed + windSpeed) / speed)^2), for a
\* speed that is not 0.
WindFactorReference(speed, windSpeed) ==
    LET sum == RAdd(speed, windSpeed)
        airSpeed == IF RLt(sum, Zero) THEN Zero ELSE sum
        q == [n |-> airSpeed.n * speed.d, d |-> airSpeed.d * speed.n]
        square == R(q.n * q.n, q.d * q.d)
        blend == RAdd(R(4, 10), RMul(R(6, 10), square))
    IN  IF RLt(blend, R(1, 2)) THEN R(1, 2) ELSE blend

\* C13: for a speed of at least 1 and any wind speed, calculateWindFactor
\* returns max(0.5, 0.4 + 0.6 * (max(0, speed + windSpeed) / speed)^2); the
\* result is never below 0.5, and it is exactly 0.5 whenever
\* windSpeed <= -speed.
C13_WindFactorFormula ==
    (Returned("calculateWindFactor") /\ RLe(One, call.args[1])) =>
        /\ call.out = WindFactorReference(call.args[1], call.args[2])
        /\ RLe(R(1, 2), call.out)
        /\ RLe(call.args[2], RNeg(call.args[1])) => call.out = R(1, 2)

\* A tail wind stronger than the car is fast: calculateWindFactor(20, -30).
C13_Witness ==
    /\ Returned("calculateWindFactor")
    /\ call.args = <<I(20), I(-30)>>
    /\ call.out = R(1, 2)

\* C14: for a speed of at least 1, calculateWindFactor(speed, 0) is 1.
C14_NoWindIsNeutral ==
    (Returned("calculateWindFactor") /\ RLe(One, call.args[1])
        /\ call.args[2] = Zero) => call.out = One

\* calculateWindFactor(100, 0).
C14_Witness ==
    /\ Returned("calculateWindFactor")
    /\ call.args = <<I(100), Zero>>
    /\ call.out = One

\* C15: for a speed below 1, 0 and negative speeds included,
\* calculateWindFactor returns exactly 1 whatever the wind speed is, so
\* what calculateRange returns for such a speed is what it returns with
\* no wind.
C15_LowSpeedIgnoresWind ==
    /\ (Returned("calculateWindFactor") /\ RLt(call.args[1], One)) =>
           call.out = One
    /\ (call.fn = "calculateRange" /\ ret.returned /\ carStore.speed < 1) =>
           LET calm == calculateRange(carStore,
                                      [parameterStore EXCEPT !.windSpeed = 0])
           IN  /\ ret.windFactor = One
               /\ ret.energyConsumption = calm.energyConsumption
               /\ ret.rangeKm = calm.rangeKm
               /\ ret.rangeMi = calm.rangeMi

\* calculateWindFactor(0.5, 10), the call of the unit test.
C15_Witness ==
    /\ Returned("calculateWindFactor")
    /\ call.args = <<R(1, 2), I(10)>>
    /\ call.out = One

\* calculateRange() with the car at rest in a head wind.
C15_WitnessRange ==
    /\ call.fn = "calculateRange"
    /\ ret.returned
    /\ carStore.speed = 0
    /\ parameterStore.windSpeed = 20
    /\ ret.windFactor = One

\* C16: for a speed of at least 1 and a wind speed W > 0, a head wind of W
\* gives a factor above 1, a tail wind of W gives a factor below 1, and
\* the head wind adds more than the tail wind takes away.
C16_HeadWindOutweighsTailWind ==
    (Returned("calculateWindFactor") /\ RLe(One, call.args[1])
        /\ RLt(Zero, call.args[2])) =>
        LET tail == calculateWindFactor(call.args[1], RNeg(call.args[2]))
        IN  /\ RLt(One, call.out)
            /\ RLt(tail, One)
            /\ RSub(RSub(call.out, One), RSub(One, tail)).n > 0

\* calculateWindFactor(100, 20) = 1.264, against 0.784 for a tail wind of
\* 20.
C16_Witness ==
    /\ Returned("calculateWindFactor")
    /\ call.args = <<I(100), I(20)>>
    /\ call.out = R(1264, 1000)
    /\ calculateWindFactor(I(100), I(-20)) = R(784, 1000)

\* C17: calculateTempFactor(22) is 1; d degrees below 22 it is
\* 1 + 0.015 * d and d degrees above 22 it is 1 + 0.01 * d, so at the same
\* distance from 22 the cold penalty is strictly larger than the hot one.
C17_TempFactorPenalties ==
    Returned("calculateTempFactor") =>
        LET t == call.args[1]
            d == IF RLt(t, I(22)) THEN RSub(I(22), t) ELSE RSub(t, I(22))
            mirrored == calculateTempFactor(RSub(I(44), t))
        IN  /\ t = I(22) => call.out = One
            /\ RLt(t, I(22)) =>
                   /\ call.out = RAdd(One, RMul(R(15, 1000), d))
                   /\ RLt(mirrored, call.out)
            /\ RLt(I(22), t) =>
                   /\ call.out = RAdd(One, RMul(R(1, 100), d))
                   /\ RLt(call.out, mirrored)

\* calculateTempFactor(12) = 1.15, against 1.1 for 32 degrees.
C17_Witness ==
    /\ Returned("calculateTempFactor")
    /\ call.args = <<I(12)>>
    /\ call.out = R(115, 100)
    /\ calculateTempFactor(I(32)) = R(11, 10)

\* 1 - (min(max(r, 0), 100) / 100) * 0.25.
RecuperationReference(r) ==
    LET clamped == IF RLt(r, Zero) THEN Zero
                   ELSE IF RLt(I(100), r) THEN I(100) ELSE r
    IN  R((400 * clamped.d) - clamped.n, 400 * clamped.d)

\* C18: calculateRecuperationFactor(r) is
\* 1 - (min(max(r, 0), 100) / 100) * 0.25: 1 for every r <= 0, 0.75 for
\* every r >= 100, and no larger recuperation gives a larger factor.
C18_RecuperationFactorFormula ==
    Returned("calculateRecuperationFactor") =>
        LET r == call.args[1]
        IN  /\ call.out = RecuperationReference(r)
            /\ RLe(r, Zero) => call.out = One
            /\ RLe(I(100), r) => call.out = R(75, 100)
            /\ \A more \in RecuperationArgs :
                   RLe(r, more) =>
                       RLe(calculateRecuperationFactor(more), call.out)

\* calculateRecuperationFactor(150), clamped to the factor of 100.
C18_Witness ==
    /\ Returned("calculateRecuperationFactor")
    /\ call.args = <<I(150)>>
    /\ call.out = R(75, 100)
    /\ calculateRecuperationFactor(I(50)) = R(875, 1000)

\* max(0.1, 1 + slope * 0.02).
RoadSlopeReference(slope) ==
    LET line == R((50 * slope.d) + slope.n, 50 * slope.d)
    IN  IF RLt(line, R(1, 10)) THEN R(1, 10) ELSE line

\* C19: calculateRoadSlopeFactor(slope) is max(0.1, 1 + slope * 0.02): 1
\* at slope 0, 1.1 at slope 5, 0.9 at slope -5 and exactly 0.1 for every
\* slope of -45 or less, -100 included.
C19_RoadSlopeFactorFormula ==
    Returned("calculateRoadSlopeFactor") =>
        LET slope == call.args[1]
        IN  /\ call.out = RoadSlopeReference(slope)
            /\ slope = Zero => call.out = One
            /\ slope = I(5) => call.out = R(11, 10)
            /\ slope = I(-5) => call.out = R(9, 10)
            /\ RLe(slope, I(-45)) => call.out = R(1, 10)

\* calculateRoadSlopeFactor(-100), on the floor.
C19_Witness ==
    /\ Returned("calculateRoadSlopeFactor")
    /\ call.args = <<I(-100)>>
    /\ call.out = R(1, 10)

FactorFunctions ==
    {"calculateSpeedFactor", "calculateWindFactor", "calculateTempFactor",
     "calculateRecuperationFactor", "calculateRoadSlopeFactor"}

\* C20: each of the five factor functions returns a defined value for
\* every input, speeds of 0 and below, tail winds faster than the car,
\* recuperations outside [0, 100] and extreme slopes and temperatures
\* included, and never divides by zero.  In exact arithmetic a value
\* that is not finite can only come from a division by zero, so a finite
\* result shows that none took place; a wind factor other than the 1 of
\* the early return, the only result that went through the division by
\* the speed, comes from a speed of at least 1.
C20_FactorsDefinedEverywhere ==
    /\ (call.fn \in FactorFunctions /\ call.done) => IsFinite(call.out)
    /\ (Returned("calculateWindFactor") /\ call.out # One) =>
           RLe(One, call.args[1])
    /\ (call.fn = "calculateRange" /\ ret.returned) =>
           /\ IsFinite(ret.speedFactor)
           /\ IsFinite(ret.windFactor)
           /\ IsFinite(ret.tempFactor)
           /\ IsFinite(ret.recuperationFactor)
           /\ IsFinite(ret.roadSlopeFactor)

\* calculateWindFactor(0, -60): no speed, and a wind speed below -speed.
C20_Witness ==
    /\ Returned("calculateWindFactor")
    /\ call.args = <<Zero, I(-60)>>
    /\ call.out = One

\* C21: two callers who each assign their own seven inputs to the stores
\* and then call calculateRange() each receive, in every interleaving of
\* their steps, the estimate for their own inputs.
C21_EachCallerGetsOwnEstimate ==
    \A c \in Callers :
        callers[c].got.returned =>
            LET own == calculateRange(CarOf(callers[c].inputs),
                                      ParametersOf(callers[c].inputs))
            IN  /\ callers[c].got.rangeKm = own.rangeKm
                /\ callers[c].got.rangeMi = own.rangeMi

\* What calculateRange() returns for the seven inputs of the stores when
\* the stores hold nothing else.
FreshEstimate ==
    calculateRange([carStore EXCEPT !.range = Zero, !.rangeMi = Zero],
                   parameterStore)

InputsHeld ==
    <<carStore.battery, carStore.consumption, carStore.speed, parameterStore>>

\* The state just after a submit: carStore.range and carStore.rangeMi are
\* the rangeKm and rangeMi of calculateRange() for the inputs held.
EstimateIsOfInputsHeld ==
    ret.returned =>
        /\ carStore.range = FreshEstimate.rangeKm
        /\ carStore.rangeMi = FreshEstimate.rangeMi

\* carStore.rangeMi is round(carStore.range * 0.621371).
MilesOfStoredRange ==
    carStore.rangeMi = MathRound(RMul(carStore.range, R(621371, 1000000)))

\* A step that changes carStore.range or carStore.rangeMi is a submit: it
\* returns from calculateRange(), assigns both fields from what was
\* returned, and changes no input.  A step that changes an input changes
\* neither of the two.
EstimateWrittenBySubmitOnly ==
    /\ (carStore'.range # carStore.range \/ carStore'.rangeMi # carStore.rangeMi)
          => /\ ret'.returned
             /\ carStore'.range = ret'.rangeKm
             /\ carStore'.rangeMi = ret'.rangeMi
             /\ InputsHeld' = InputsHeld
    /\ InputsHeld' # InputsHeld
          => /\ carStore'.range = carStore.range
             /\ carStore'.rangeMi = carStore.rangeMi

\* C26: in the form, after any sequence of edits and submits,
\* carStore.range and carStore.rangeMi are written only by a submit and
\* always together, after a submit they are the rangeKm and rangeMi of
\* calculateRange() for the inputs held at that submit, so that
\* carStore.rangeMi is round(carStore.range * 0.621371); an edit leaves
\* both unchanged; the estimate is displayed only while carStore.range > 0.
C26_EstimateFollowsSubmits ==
    /\ [](EstimateIsOfInputsHeld /\ MilesOfStoredRange)
    /\ [](EstimateDisplayed => (IsNaN(carStore.range) = FALSE /\ carStore.range.n > 0))
    /\ [][EstimateWrittenBySubmitOnly]_vars

\* The estimate of a submit, 418 km / 260 miles, still in the store and on
\* the page after the battery field was edited to 0.
C26_Witness ==
    /\ ~ret.returned
    /\ carStore.battery = 0
    /\ carStore.range = I(418)
    /\ carStore.rangeMi = I(260)
    /\ EstimateDisplayed

\* C23: a call of calculateRange() leaves carStore and parameterStore as
\* they were: the seven inputs keep their values, and neither
\* carStore.range nor carStore.rangeMi nor any other field is assigned.
\* (A step that ends with a return value is a call: every write to a
\* store discards the return value.)
C23_CallLeavesStoresUnchanged ==
    [][ret'.returned =>
          (carStore' = carStore /\ parameterStore' = parameterStore)]_vars

\* After the call on the stores as the tests set them up: 418 km returned,
\* the inputs in place and no estimate in carStore.
C23_Witness ==
    /\ ret.returned
    /\ ret.rangeKm = I(418)
    /\ carStore = carStoreInit
    /\ parameterStore = parameterStoreInit
    /\ carStore.range = Zero /\ carStore.rangeMi = Zero

\* The stores with the speed replaced by 120.
CarAtVeryHighSpeed == [carStore EXCEPT !.speed = 120]

Increases == {1, 5, 40}

\* The values above v among those of the field and the increases of v.
Above(v, values) == {w \in values : w >= v} \cup {v + k : k \in Increases}

\* rangeKm of calculateRange() on the stores car and par is at least, or at
\* most, the rangeKm returned; stores outside the window of the model
\* are not compared.
NoShorterOn(car, par) ==
    IF Representable(car, par)
    THEN RLe(ret.rangeKm, calculateRange(car, par).rangeKm)
    ELSE TRUE

NoLongerOn(car, par) ==
    IF Representable(car, par)
    THEN RLe(calculateRange(car, par).rangeKm, ret.rangeKm)
    ELSE TRUE

\* C25: for a battery capacity and a consumption above 0 and the other
\* inputs fixed, rangeKm never decreases when the battery capacity or the
\* recuperation increases, and never increases when the consumption, the
\* wind speed (more head wind) or the road slope (steeper uphill)
\* increases.
C25_RangeMonotoneInInputs ==
    (ret.returned /\ ValidInputs) =>
        /\ \A v \in Above(carStore.battery, Batteries) :
               NoShorterOn([carStore EXCEPT !.battery = v], parameterStore)
        /\ \A v \in Above(parameterStore.recuperation, Recuperations) :
               NoShorterOn(carStore, [parameterStore EXCEPT !.recuperation = v])
        /\ \A v \in Above(carStore.consumption, Consumptions) :
               NoLongerOn([carStore EXCEPT !.consumption = v], parameterStore)
        /\ \A v \in Above(parameterStore.windSpeed, WindSpeeds) :
               NoLongerOn(carStore, [parameterStore EXCEPT !.windSpeed = v])
        /\ \A v \in Above(parameterStore.roadSlope, RoadSlopes) :
               NoLongerOn(carStore, [parameterStore EXCEPT !.roadSlope = v])

\* 66 kWh, 19 kWh/100 km, 100 km/h, no wind: 277 km; more with 75 kWh or
\* with a recuperation of 50, less with 21 kWh/100 km, with a head wind of
\* 20 km/h or on a slope of 5 %.
C25_Witness ==
    /\ ret.returned
    /\ carStore.battery = 66 /\ carStore.consumption = 19
    /\ carStore.speed = 100
    /\ parameterStore = parameterStoreInit
    /\ ret.rangeKm = I(277)
    /\ RLt(ret.rangeKm,
           calculateRange([carStore EXCEPT !.battery = 75], parameterStore).rangeKm)
    /\ RLt(ret.rangeKm,
           calculateRange(carStore, [parameterStore EXCEPT !.recuperation = 50]).rangeKm)
    /\ RLt(calculateRange([carStore EXCEPT !.consumption = 21], parameterStore).rangeKm,
           ret.rangeKm)
    /\ RLt(calculateRange(carStore, [parameterStore EXCEPT !.windSpeed = 20]).rangeKm,
           ret.rangeKm)
    /\ RLt(calculateRange(carStore, [parameterStore EXCEPT !.roadSlope = 5]).rangeKm,
           ret.rangeKm)

====
